---- MODULE Spec2Model ----
(***************************************************************************)
(* gh-trs: the configuration model (src/src/config.rs) and the GA4GH TRS   *)
(* record generation (src/src/trs.rs).                                     *)
(*                                                                         *)
(* A Rust String / PathBuf is a sequence of tokens: a token is one         *)
(* character of an input, or one literal piece of a format! template.      *)
(* Option<T> is a sequence of length 0 (None) or 1 (Some).                 *)
(* Result<T> is a record [kind, val, err]; kind "Panic" is an unwinding    *)
(* panic (index out of bounds, unwrap of an Err), which is not a value.    *)
(***************************************************************************)
EXTENDS Integers, Sequences, FiniteSets, TLC

VARIABLES
    clock,      \* the wall clock read by Utc::now(), in ticks
    last,       \* the latest call of ServiceInfo::new_or_update: inputs, instant, outcome
    before,     \* inputs of the call whose output was handed to `last` as prior
    chainFirst, \* first record of the regeneration chain `last` belongs to
    fileCall,   \* the latest call of File::new / TestFile::new / Testing::default
    fileResult, \* its outcome
    toolCall,   \* the latest call of ToolVersion::new / DescriptorType::new
    toolResult, \* its outcome
    mapped      \* the pairs <<language type, descriptor type>> DescriptorType::new returned

vars == <<clock, last, before, chainFirst, fileCall, fileResult, toolCall, toolResult, mapped>>
serviceVars == <<clock, last, before, chainFirst>>
fileVars == <<fileCall, fileResult>>
toolVars == <<toolCall, toolResult, mapped>>

----
\* Bounds of the model

MaxAdvance == 3
TicksPerSecond == 2
MaxPathLen == 4

----
\* Option and Result

None == <<>>
Some(x) == <<x>>
IsSome(o) == Len(o) = 1
Unwrap(o) == o[1]

Ok(v) == [kind |-> "Ok", val |-> <<v>>, err |-> "-"]
Err(e) == [kind |-> "Err", val |-> <<>>, err |-> e]
Panic(e) == [kind |-> "Panic", val |-> <<>>, err |-> e]
NoCall == [kind |-> "NoCall", val |-> <<>>, err |-> "-"]
IsOk(r) == r.kind = "Ok"
Val(r) == r.val[1]

\* All sequences over S of length lo..hi
SeqsOf(S, lo, hi) == UNION {[1..n -> S] : n \in lo..hi}

----
\* url::Url

SpecialSchemes == {"https"}
ForbiddenHostChars == {" ", "/"}

\* Percent-encoding of a path: a space becomes %20, the rest is kept
RECURSIVE PathEncode(_)
PathEncode(s) ==
    IF s = <<>> THEN <<>>
    ELSE (IF Head(s) = " " THEN <<"%", "2", "0">> ELSE <<Head(s)>>) \o PathEncode(Tail(s))

\* Url::parse of the text scheme:[//host]path
UrlParse(raw) ==
    IF raw.scheme \in SpecialSchemes
    THEN IF raw.host = <<>> \/ \E i \in DOMAIN raw.host : raw.host[i] \in ForbiddenHostChars
         THEN Err("UrlParse")
         ELSE Ok([scheme |-> raw.scheme, host |-> raw.host,
                  path |-> IF raw.path = <<>> THEN <<"/">> ELSE PathEncode(raw.path)])
    ELSE Ok([scheme |-> raw.scheme, host |-> raw.host, path |-> PathEncode(raw.path)])

\* str::split('/'): always at least one piece
RECURSIVE Split(_, _)
Split(s, cur) ==
    IF s = <<>> THEN <<cur>>
    ELSE IF Head(s) = "/" THEN <<cur>> \o Split(Tail(s), <<>>)
    ELSE Split(Tail(s), Append(cur, Head(s)))

\* Url::path_segments: None unless the path starts with '/'
PathSegments(url) ==
    IF url.path # <<>> /\ Head(url.path) = "/"
    THEN Some(Split(Tail(url.path), <<>>))
    ELSE None

\* Variant of IterLast that yields the first item
IterFirst(it) == IF it = <<>> THEN None ELSE Some(it[1])

\* Iterator::last
IterLast(it) == IF it = <<>> THEN None ELSE Some(it[Len(it)])

----
\* src/src/config.rs

FileType == {<<"FileType", "Primary">>, <<"FileType", "Secondary">>}
TestFileType ==
    {<<"TestFileType", "WfParams">>, <<"TestFileType", "WfEngineParams">>,
     <<"TestFileType", "Other">>}

\* File::new(url, target, type)
FileNew(url, target, type) ==
    LET segs == PathSegments(url)
        resolved ==
            IF IsSome(target) THEN Ok(Unwrap(target))
            ELSE IF ~IsSome(segs) THEN Err("InvalidUrl")
            ELSE IF ~IsSome(IterLast(Unwrap(segs))) THEN Err("InvalidUrl")
            ELSE Ok(Unwrap(IterLast(Unwrap(segs))))
    IN  IF ~IsOk(resolved) THEN resolved
        ELSE Ok([url |-> url, target |-> Val(resolved), type |-> type])

\* Variant of TestFileNew that takes the whole path, not its last segment
TestFileNewWholePath(url, target, type) ==
    LET resolved ==
            IF IsSome(target) THEN Ok(Unwrap(target))
            ELSE IF ~IsSome(PathSegments(url)) THEN Err("InvalidUrl")
            ELSE Ok(url.path)
    IN  IF ~IsOk(resolved) THEN resolved
        ELSE Ok([url |-> url, target |-> Val(resolved), type |-> type])

\* TestFile::new(url, target, type)
TestFileNew(url, target, type) ==
    LET segs == PathSegments(url)
        resolved ==
            IF IsSome(target) THEN Ok(Unwrap(target))
            ELSE IF ~IsSome(segs) THEN Err("InvalidUrl")
            ELSE IF ~IsSome(IterLast(Unwrap(segs))) THEN Err("InvalidUrl")
            ELSE Ok(Unwrap(IterLast(Unwrap(segs))))
    IN  IF ~IsOk(resolved) THEN resolved
        ELSE Ok([url |-> url, target |-> Val(resolved), type |-> type])

\* The three URLs Testing::default parses, as written in the source
DefaultUrlTexts ==
    << [scheme |-> "https", host |-> <<"example.com">>,
        path |-> <<"/", "path", "/", "to", "/", "wf_params.json">>],
       [scheme |-> "https", host |-> <<"example.com">>,
        path |-> <<"/", "path", "/", "to", "/", "wf_engine_params.json">>],
       [scheme |-> "https", host |-> <<"example.com">>,
        path |-> <<"/", "path", "/", "to", "/", "data.fq">>] >>

DefaultTypes ==
    << <<"TestFileType", "WfParams">>, <<"TestFileType", "WfEngineParams">>,
       <<"TestFileType", "Other">> >>

\* One element of the vec! in Testing::default: Url::parse(..).unwrap(), then
\* TestFile::new(.., None, type).unwrap()
DefaultEntry(i) ==
    LET parsed == UrlParse(DefaultUrlTexts[i])
    IN  IF ~IsOk(parsed) THEN Panic("unwrap")
        ELSE LET f == TestFileNew(Val(parsed), None, DefaultTypes[i])
             IN  IF IsOk(f) THEN f ELSE Panic("unwrap")

\* Testing::default()
TestingDefault ==
    IF \E i \in 1..3 : ~IsOk(DefaultEntry(i)) THEN Panic("unwrap")
    ELSE Ok([id |-> <<"test_1">>, files |-> [i \in 1..3 |-> Val(DefaultEntry(i))]])

\* URL texts handed to Url::parse by the caller: https://h<path> and mailto:<path>
HierPaths ==
    {p \in SeqsOf({"/", "a", " "}, 0, MaxPathLen) : p = <<>> \/ Head(p) = "/"}
OpaquePaths == SeqsOf({"a", "/"}, 0, MaxPathLen - 1)
UrlTexts ==
    {[scheme |-> "https", host |-> <<"h">>, path |-> p] : p \in HierPaths}
    \cup {[scheme |-> "mailto", host |-> <<>>, path |-> p] : p \in OpaquePaths}

\* Explicit targets
Targets == {None, Some(<<"d", "/", "f">>)}

NoFileCall ==
    [fn |-> "-", text |-> None, url |-> None, target |-> None, type |-> <<"-", "-">>]

CallFileNew ==
    /\ \E text \in UrlTexts, target \in Targets, type \in FileType :
          /\ IsOk(UrlParse(text))
          /\ fileCall' = [fn |-> "File::new", text |-> Some(text),
                          url |-> Some(Val(UrlParse(text))), target |-> target, type |-> type]
          /\ fileResult' = FileNew(Val(UrlParse(text)), target, type)
    /\ UNCHANGED <<serviceVars, toolVars>>

CallTestFileNew ==
    /\ \E text \in UrlTexts, target \in Targets, type \in TestFileType :
          /\ IsOk(UrlParse(text))
          /\ fileCall' = [fn |-> "TestFile::new", text |-> Some(text),
                          url |-> Some(Val(UrlParse(text))), target |-> target, type |-> type]
          /\ fileResult' = TestFileNew(Val(UrlParse(text)), target, type)
    /\ UNCHANGED <<serviceVars, toolVars>>

CallTestingDefault ==
    /\ fileCall' = [NoFileCall EXCEPT !.fn = "Testing::default"]
    /\ fileResult' = TestingDefault
    /\ UNCHANGED <<serviceVars, toolVars>>

----
\* chrono: DateTime<Utc> is an instant in ticks since 1970-01-01T00:00:00Z

DigitChars == <<"0", "1", "2", "3", "4", "5", "6", "7", "8", "9">>

\* n written in decimal, zero-padded to w digits
RECURSIVE ZeroPad(_, _)
ZeroPad(n, w) ==
    IF w = 0 THEN <<>> ELSE Append(ZeroPad(n \div 10, w - 1), DigitChars[(n % 10) + 1])

\* The proleptic Gregorian date <<year, month, day>> of a day number since 1970-01-01
CivilFromDays(days) ==
    LET z == days + 719468
        era == z \div 146097
        doe == z - era * 146097
        yoe == (doe - doe \div 1460 + doe \div 36524 - doe \div 146096) \div 365
        doy == doe - (365 * yoe + yoe \div 4 - yoe \div 100)
        mp == (5 * doy + 2) \div 153
        d == doy - (153 * mp + 2) \div 5 + 1
        m == IF mp < 10 THEN mp + 3 ELSE mp - 9
    IN  <<yoe + era * 400 + (IF m <= 2 THEN 1 ELSE 0), m, d>>

\* DateTime::format("%Y%m%d%H%M%S").to_string(): the sub-second part is dropped
FormatYmdHMS(t) ==
    LET secs == t \div TicksPerSecond
        date == CivilFromDays(secs \div 86400)
        sod == secs % 86400
    IN  ZeroPad(date[1], 4) \o ZeroPad(date[2], 2) \o ZeroPad(date[3], 2)
        \o ZeroPad(sod \div 3600, 2) \o ZeroPad((sod % 3600) \div 60, 2) \o ZeroPad(sod % 60, 2)

----
\* src/src/trs.rs: ServiceInfo

\* ServiceType::default()
ServiceTypeDefault ==
    [group |-> <<"gh-trs">>, artifact |-> <<"gh-trs">>, version |-> <<"2.0.1">>]

\* ServiceInfo::new(config, owner, name), `now` being what Utc::now() returns
ServiceInfoNew(config, owner, name, now) ==
    LET created_at == now
        account == config.authors[1].github_account
        url == UrlParse([scheme |-> "https", host |-> <<"github.com">>,
                         path |-> <<"/">> \o account])
    IN  IF Len(config.authors) = 0 THEN Panic("index out of bounds")
        ELSE IF ~IsOk(url) THEN Err("UrlParse")
        ELSE Ok([id |-> name \o <<".">> \o owner \o <<".gh-trs">>,
                 name |-> <<"gh-trs ">> \o owner \o <<"/">> \o name,
                 type |-> ServiceTypeDefault,
                 description |-> Some(<<"The GA4GH TRS API generated by gh-trs">>),
                 organization |-> [name |-> account, url |-> Val(url)],
                 contact_url |-> None,
                 documentation_url |-> None,
                 created_at |-> Some(created_at),
                 updated_at |-> Some(created_at),
                 environment |-> None,
                 version |-> FormatYmdHMS(created_at)])

\* The merge of new_or_update with the listed fields left as freshly constructed
\* (keep) or copied from the prior although the code regenerates them (copy)
MergeVariant(prev, config, owner, name, now, keep, copy) ==
    LET fresh == ServiceInfoNew(config, owner, name, now)
        carried == {"id", "name", "type", "description", "organization", "contact_url",
                    "documentation_url", "created_at", "environment"}
    IN  IF ~IsOk(fresh) THEN fresh
        ELSE IF IsSome(prev)
        THEN Ok([f \in DOMAIN Val(fresh) |->
                    IF f \in (carried \ keep) \cup copy THEN Unwrap(prev)[f] ELSE Val(fresh)[f]])
        ELSE fresh

\* Variant: created_at is not carried forward
NewOrUpdateFreshCreatedAt(prev, config, owner, name, now) ==
    MergeVariant(prev, config, owner, name, now, {"created_at"}, {})

\* Variant: updated_at is copied from the prior
NewOrUpdateCopiesUpdatedAt(prev, config, owner, name, now) ==
    MergeVariant(prev, config, owner, name, now, {}, {"updated_at"})

\* Variant: version is copied from the prior
NewOrUpdateCopiesVersion(prev, config, owner, name, now) ==
    MergeVariant(prev, config, owner, name, now, {}, {"version"})

\* Variant: organization is not carried forward
NewOrUpdateFreshOrganization(prev, config, owner, name, now) ==
    MergeVariant(prev, config, owner, name, now, {"organization"}, {})

\* ServiceInfo::new_or_update(prev, config, owner, name)
ServiceInfoNewOrUpdate(prev, config, owner, name, now) ==
    LET fresh == ServiceInfoNew(config, owner, name, now)
    IN  IF ~IsOk(fresh) THEN fresh
        ELSE IF IsSome(prev)
        THEN Ok([Val(fresh) EXCEPT
                    !.id = Unwrap(prev).id,
                    !.name = Unwrap(prev).name,
                    !.type = Unwrap(prev).type,
                    !.description = Unwrap(prev).description,
                    !.organization = Unwrap(prev).organization,
                    !.contact_url = Unwrap(prev).contact_url,
                    !.documentation_url = Unwrap(prev).documentation_url,
                    !.created_at = Unwrap(prev).created_at,
                    !.environment = Unwrap(prev).environment])
        ELSE fresh

----
\* src/src/trs.rs: ToolVersion and DescriptorType

LanguageType ==
    {<<"LanguageType", "Cwl">>, <<"LanguageType", "Wdl">>, <<"LanguageType", "Nfl">>,
     <<"LanguageType", "Smk">>}
DescriptorType ==
    {<<"DescriptorType", "Cwl">>, <<"DescriptorType", "Wdl">>, <<"DescriptorType", "Nfl">>,
     <<"DescriptorType", "Smk">>, <<"DescriptorType", "Galaxy">>}

\* Variant of DescriptorTypeNew with the Smk arm returning Nfl
DescriptorTypeNewSmkAsNfl(wf_type) ==
    CASE wf_type = <<"LanguageType", "Cwl">> -> <<"DescriptorType", "Cwl">>
      [] wf_type = <<"LanguageType", "Wdl">> -> <<"DescriptorType", "Wdl">>
      [] wf_type = <<"LanguageType", "Nfl">> -> <<"DescriptorType", "Nfl">>
      [] wf_type = <<"LanguageType", "Smk">> -> <<"DescriptorType", "Nfl">>

\* DescriptorType::new(wf_type)
DescriptorTypeNew(wf_type) ==
    CASE wf_type = <<"LanguageType", "Cwl">> -> <<"DescriptorType", "Cwl">>
      [] wf_type = <<"LanguageType", "Wdl">> -> <<"DescriptorType", "Wdl">>
      [] wf_type = <<"LanguageType", "Nfl">> -> <<"DescriptorType", "Nfl">>
      [] wf_type = <<"LanguageType", "Smk">> -> <<"DescriptorType", "Smk">>

\* The URL text ToolVersion::new formats
VersionUrlText(config, owner, name) ==
    [scheme |-> "https",
     host |-> owner \o <<".github.io">>,
     path |-> <<"/">> \o name \o <<"/", "tools", "/">> \o config.id
              \o <<"/", "versions", "/">> \o config.version]

\* Variant of ToolVersionNew that reads the language type before it parses the URL
ToolVersionNewTypeFirst(config, owner, name) ==
    LET url == UrlParse(VersionUrlText(config, owner, name))
        type == config.workflow.language.type
    IN  IF ~IsSome(type) THEN Err("MissingLanguageType")
        ELSE IF ~IsOk(url) THEN Err("UrlParse")
        ELSE Ok([author |-> Some([i \in DOMAIN config.authors |->
                                     config.authors[i].github_account]),
                 name |-> Some(config.workflow.name),
                 url |-> Val(url),
                 id |-> config.id,
                 is_production |-> None,
                 images |-> None,
                 descriptor_type |-> Some(<<DescriptorTypeNew(Unwrap(type))>>),
                 containerfile |-> None,
                 meta_version |-> None,
                 verified |-> None,
                 verified_source |-> None,
                 signed |-> None,
                 included_apps |-> None])

\* ToolVersion::new(config, owner, name): the fields are evaluated in the order written,
\* so the URL's `?` returns before the language type's
ToolVersionNew(config, owner, name) ==
    LET url == UrlParse(VersionUrlText(config, owner, name))
        type == config.workflow.language.type
    IN  IF ~IsOk(url) THEN Err("UrlParse")
        ELSE IF ~IsSome(type) THEN Err("MissingLanguageType")
        ELSE Ok([author |-> Some([i \in DOMAIN config.authors |->
                                     config.authors[i].github_account]),
                 name |-> Some(config.workflow.name),
                 url |-> Val(url),
                 id |-> config.id,
                 is_production |-> None,
                 images |-> None,
                 descriptor_type |-> Some(<<DescriptorTypeNew(Unwrap(type))>>),
                 containerfile |-> None,
                 meta_version |-> None,
                 verified |-> None,
                 verified_source |-> None,
                 signed |-> None,
                 included_apps |-> None])

----
\* The inputs the callers draw from

Owners == {<<"o">>, <<"p", " ">>}
RepoNames == {<<"r">>, <<"s">>}
\* The repositories service records are generated for
Repos == {[owner |-> <<"o">>, name |-> <<"r">>], [owner |-> <<"p", " ">>, name |-> <<"s">>]}
Author(a) == [github_account |-> a]
AuthorLists == {<<>>, <<Author(<<"a">>)>>, <<Author(<<"b", " ">>), Author(<<"a">>)>>}

MkConfig(authors, type, version) ==
    [id |-> <<"uuid">>, version |-> version, license |-> <<"MIT">>, authors |-> authors,
     workflow |-> [name |-> <<"wf">>, language |-> [type |-> type, version |-> None]]]

ServiceConfigs == {MkConfig(a, Some(<<"LanguageType", "Cwl">>), <<"1">>) : a \in AuthorLists}
ToolConfigs ==
    {MkConfig(a, t, v) : a \in AuthorLists,
                         t \in {None} \cup {Some(l) : l \in LanguageType},
                         v \in {<<"1">>, <<"2", " ">>}}

\* The clock starts one second before a year ends or before a leap day
StartSeconds == {31535999, 68169599}

OtherUrl == [scheme |-> "https", host |-> <<"example.org">>, path |-> <<"/", "doc">>]

\* Records read back from a published service-info.json that this program did not
\* write in the current run (every optional field may be absent or present)
ForeignPriors ==
    { [id |-> <<"x">>, name |-> <<"X">>,
       type |-> [group |-> <<"org">>, artifact |-> <<"trs">>, version |-> <<"1.0.0">>],
       description |-> None,
       organization |-> [name |-> <<"z">>, url |-> OtherUrl],
       contact_url |-> Some(OtherUrl), documentation_url |-> Some(OtherUrl),
       created_at |-> None, updated_at |-> Some(2 * TicksPerSecond),
       environment |-> Some(<<"prod">>), version |-> <<"v1">>] }

NoServiceCall ==
    [prev |-> None, config |-> MkConfig(<<>>, None, <<>>), owner |-> <<>>, name |-> <<>>,
     now |-> 0, result |-> NoCall]

NoToolCall ==
    [fn |-> "-", config |-> None, owner |-> <<>>, name |-> <<>>, wf_type |-> None]

----
\* The state machine

Init ==
    /\ clock \in {s * TicksPerSecond : s \in StartSeconds}
    /\ last = NoServiceCall
    /\ before = None
    /\ chainFirst = None
    /\ fileCall = NoFileCall
    /\ fileResult = NoCall
    /\ toolCall = NoToolCall
    /\ toolResult = NoCall
    /\ mapped = {}

\* Time passes between two calls; the clock does not go back
Tick ==
    /\ \E s \in StartSeconds : clock - s * TicksPerSecond \in 0..(MaxAdvance - 1)
    /\ clock' = clock + 1
    /\ UNCHANGED <<last, before, chainFirst, fileVars, toolVars>>

\* A call of ServiceInfo::new_or_update: with no prior, with the output of the
\* preceding call, or with a record read back from elsewhere
CallNewOrUpdate ==
    /\ \E prev \in {None} \cup {Some(Val(last.result)) : x \in {y \in {1} : IsOk(last.result)}}
                   \cup {Some(p) : p \in ForeignPriors},
          config \in ServiceConfigs, repo \in Repos :
          LET owner == repo.owner
              name == repo.name
              r == ServiceInfoNewOrUpdate(prev, config, owner, name, clock)
              chained == IsOk(last.result) /\ prev = last.result.val
          IN  /\ last' = [prev |-> prev, config |-> config, owner |-> owner, name |-> name,
                          now |-> clock, result |-> r]
              /\ before' = IF chained
                           THEN Some([hadPrev |-> IsSome(last.prev), config |-> last.config,
                                      owner |-> last.owner, name |-> last.name,
                                      now |-> last.now])
                           ELSE None
              /\ chainFirst' = IF ~IsOk(r) THEN None
                               ELSE IF ~IsSome(prev) THEN r.val
                               ELSE IF chained THEN chainFirst
                               ELSE None
    /\ UNCHANGED <<clock, fileVars, toolVars>>

CallToolVersionNew ==
    /\ \E config \in ToolConfigs, owner \in Owners, name \in RepoNames :
          LET r == ToolVersionNew(config, owner, name)
              type == config.workflow.language.type
          IN  /\ toolCall' = [fn |-> "ToolVersion::new", config |-> Some(config),
                              owner |-> owner, name |-> name, wf_type |-> None]
              /\ toolResult' = r
              /\ mapped' = IF IsOk(r)
                           THEN mapped \cup {<<Unwrap(type), Unwrap(Val(r).descriptor_type)[1]>>}
                           ELSE mapped
    /\ UNCHANGED <<serviceVars, fileVars>>

CallDescriptorTypeNew ==
    /\ \E wf_type \in LanguageType :
          /\ toolCall' = [NoToolCall EXCEPT !.fn = "DescriptorType::new",
                                            !.wf_type = Some(wf_type)]
          /\ toolResult' = Ok(DescriptorTypeNew(wf_type))
          /\ mapped' = mapped \cup {<<wf_type, DescriptorTypeNew(wf_type)>>}
    /\ UNCHANGED <<serviceVars, fileVars>>

Next == Tick \/ CallNewOrUpdate
NextFile == CallFileNew \/ CallTestFileNew \/ CallTestingDefault
NextTool == CallToolVersionNew \/ CallDescriptorTypeNew

\* Service-record generation
Spec == Init /\ [][Next]_vars
\* File target resolution
SpecFile == Init /\ [][NextFile]_vars
\* Tool-version building
SpecTool == Init /\ [][NextTool]_vars

----
\* Properties of ServiceInfo::new_or_update (checked under Spec)

CarriedFields ==
    {"id", "name", "type", "description", "organization", "contact_url",
     "documentation_url", "created_at", "environment"}

\* The record ServiceInfo::new would build for the latest call's inputs
FreshOfLast == ServiceInfoNew(last.config, last.owner, last.name, last.now)

\* C1: a call with a prior record returns the prior's id, name, type, description,
\* organization, contact_url, documentation_url, created_at and environment, absent
\* where the prior's is absent; none of them comes from the fresh record.
C1_PriorFieldsCarried ==
    (IsSome(last.prev) /\ IsOk(last.result)) =>
        \A f \in CarriedFields : Val(last.result)[f] = Unwrap(last.prev)[f]

\* C1 witness: a call whose prior has no created_at and no description, and differs
\* from the fresh record in all nine fields it carries that the fresh record sets
C1_Witness ==
    /\ IsSome(last.prev) /\ IsOk(last.result)
    /\ Unwrap(last.prev).created_at = None
    /\ Unwrap(last.prev).description = None
    /\ Val(last.result).created_at = None
    /\ \A f \in CarriedFields : Val(FreshOfLast)[f] # Unwrap(last.prev)[f]

\* C2: every returned record has updated_at equal to the instant read by the call and
\* version equal to that instant formatted as 14 digits YYYYMMDDHHMMSS, whatever the
\* prior holds.
C2_TimestampsRegenerated ==
    IsOk(last.result) =>
        /\ Val(last.result).updated_at = Some(last.now)
        /\ Val(last.result).version = FormatYmdHMS(last.now)
        /\ Len(Val(last.result).version) = 14
        /\ \A i \in 1..14 : \E d \in 1..10 : Val(last.result).version[i] = DigitChars[d]

\* C2 witness: a call given a prior whose updated_at and version are those of another
\* instant, in another second
C2_Witness ==
    /\ IsSome(last.prev) /\ IsOk(last.result)
    /\ IsSome(Unwrap(last.prev).updated_at)
    /\ Unwrap(last.prev).updated_at # Some(last.now)
    /\ Unwrap(last.prev).version # FormatYmdHMS(last.now)
    /\ Val(last.result).version = <<"1", "9", "7", "1", "0", "1", "0", "1",
                                    "0", "0", "0", "0", "0", "0">>

\* The latest call regenerated, with the same config, owner and name, the record a
\* call without prior had just returned
Regenerated ==
    /\ IsSome(before) /\ ~Unwrap(before).hadPrev
    /\ IsOk(last.result)
    /\ Unwrap(before).config = last.config
    /\ Unwrap(before).owner = last.owner
    /\ Unwrap(before).name = last.name

\* C3 as stated: R2 equals R1 except version and updated_at, R2.version differs from
\* R1.version, and R2.updated_at is later than R1.created_at, or equal within one tick.
C3_Original ==
    Regenerated =>
        LET R1 == Unwrap(last.prev)
            R2 == Val(last.result)
        IN  /\ \A f \in DOMAIN R2 \ {"version", "updated_at"} : R2[f] = R1[f]
            /\ R2.version # R1.version
            /\ \/ R2.updated_at[1] > R1.created_at[1]
               \/ R2.updated_at = R1.created_at /\ last.now = Unwrap(before).now

\* C3 amended: R2 equals R1 except version and updated_at; R2.version equals R1.version
\* exactly when the two calls read instants of the same second; R2.updated_at is not
\* earlier than R1.created_at, and equals it exactly when both read the same tick.
C3_RegenerationExceptTimestamps ==
    Regenerated =>
        LET R1 == Unwrap(last.prev)
            R2 == Val(last.result)
            now1 == Unwrap(before).now
        IN  /\ \A f \in DOMAIN R2 \ {"version", "updated_at"} : R2[f] = R1[f]
            /\ (R2.version = R1.version) <=>
                   (last.now \div TicksPerSecond = now1 \div TicksPerSecond)
            /\ R2.updated_at[1] >= R1.created_at[1]
            /\ (R2.updated_at = R1.created_at) <=> (last.now = now1)

\* C3 witness: a regeneration at a later tick of the same second, with the same version
C3_Witness ==
    /\ Regenerated
    /\ last.now > Unwrap(before).now
    /\ Val(last.result).version = Unwrap(last.prev).version
    /\ Val(last.result).updated_at[1] > Unwrap(last.prev).created_at[1]

\* C6 as stated: with an empty author list the call returns the MissingAuthor error;
\* it does not fail on the index authors[0].
C6_MissingAuthorError ==
    (last.result.kind # "NoCall" /\ last.config.authors = <<>>) =>
        last.result = Err("MissingAuthor")

\* C10: in a chain of successful calls, the first without prior and each later one
\* given the preceding output, every record has the first record's nine carried
\* fields, whatever authors, owner and name the later calls are given, and
\* created_at <= updated_at.
C10_ChainKeepsIdentity ==
    (IsSome(chainFirst) /\ IsOk(last.result)) =>
        /\ \A f \in CarriedFields : Val(last.result)[f] = Unwrap(chainFirst)[f]
        /\ IsSome(Val(last.result).created_at)
        /\ IsSome(Val(last.result).updated_at)
        /\ Val(last.result).created_at[1] <= Val(last.result).updated_at[1]

\* C10 witness: the third or later record of a chain, generated for another owner,
\* name and first author than the first record, at a later instant
C10_Witness ==
    /\ IsSome(chainFirst) /\ IsOk(last.result)
    /\ IsSome(before) /\ Unwrap(before).hadPrev
    /\ Val(FreshOfLast).id # Unwrap(chainFirst).id
    /\ Val(FreshOfLast).name # Unwrap(chainFirst).name
    /\ Val(FreshOfLast).organization # Unwrap(chainFirst).organization
    /\ Val(last.result).created_at[1] < Val(last.result).updated_at[1]

----
\* Properties of File::new, TestFile::new and Testing::default (checked under SpecFile)

\* What follows the last '/' of a path
RECURSIVE AfterLastSlash(_)
AfterLastSlash(path) ==
    IF \A i \in DOMAIN path : path[i] # "/" THEN path
    ELSE AfterLastSlash(Tail(path))

IsFileCall == fileCall.fn \in {"File::new", "TestFile::new"}

\* The other constructor on the latest call's URL and target
OtherConstructor ==
    IF fileCall.fn = "File::new"
    THEN TestFileNew(Unwrap(fileCall.url), fileCall.target, fileCall.type)
    ELSE FileNew(Unwrap(fileCall.url), fileCall.target, fileCall.type)

\* C4: File::new and TestFile::new resolve the target alike: an explicit target is
\* taken as given whatever the URL, without one the target is the final path segment
\* of the URL, and the stored url and role are the inputs.
C4_TargetResolution ==
    IsFileCall =>
        /\ IsSome(fileCall.target) =>
              IsOk(fileResult) /\ Val(fileResult).target = Unwrap(fileCall.target)
        /\ (~IsSome(fileCall.target) /\ IsSome(PathSegments(Unwrap(fileCall.url)))) =>
              /\ IsOk(fileResult)
              /\ Val(fileResult).target = AfterLastSlash(Unwrap(fileCall.url).path)
        /\ IsOk(fileResult) =>
              /\ Val(fileResult).url = Unwrap(fileCall.url)
              /\ Val(fileResult).type = fileCall.type
        /\ OtherConstructor.kind = fileResult.kind
        /\ IsOk(fileResult) => Val(OtherConstructor).target = Val(fileResult).target

\* C4 witness: TestFile::new without target on a URL of two segments, the last one
\* percent-encoded
C4_Witness ==
    /\ fileCall.fn = "TestFile::new"
    /\ fileCall.target = None
    /\ Unwrap(fileCall.text).path = <<"/", "a", "/", " ">>
    /\ IsOk(fileResult)
    /\ Val(fileResult).target = <<"%", "2", "0">>
    /\ Val(fileResult).type = <<"TestFileType", "Other">>

\* C5 as stated: without explicit target, a URL with no path at all, with no path
\* segments or with an empty segment sequence fails with InvalidUrl; no File or
\* TestFile with an empty target comes out of it.
C5_InvalidUrlWhenNoSegments ==
    (IsFileCall /\ ~IsSome(fileCall.target)
     /\ (\/ Unwrap(fileCall.text).path = <<>>
         \/ ~IsSome(PathSegments(Unwrap(fileCall.url)))
         \/ Unwrap(PathSegments(Unwrap(fileCall.url))) = <<>>)) =>
        fileResult = Err("InvalidUrl")

\* C9: Testing::default() succeeds with id "test_1" and three files of roles WfParams,
\* WfEngineParams, Other in that order, each with the last path segment of its URL as
\* target.
C9_TestingDefault ==
    fileCall.fn = "Testing::default" =>
        /\ IsOk(fileResult)
        /\ Val(fileResult).id = <<"test_1">>
        /\ Len(Val(fileResult).files) = 3
        /\ [i \in 1..3 |-> Val(fileResult).files[i].type] =
              << <<"TestFileType", "WfParams">>, <<"TestFileType", "WfEngineParams">>,
                 <<"TestFileType", "Other">> >>
        /\ \A i \in 1..3 :
              Val(fileResult).files[i].target =
                  AfterLastSlash(Val(fileResult).files[i].url.path)
        /\ [i \in 1..3 |-> Val(fileResult).files[i].target] =
              << <<"wf_params.json">>, <<"wf_engine_params.json">>, <<"data.fq">> >>

\* C9 witness: Testing::default() was called and returned its three files
C9_Witness ==
    /\ fileCall.fn = "Testing::default"
    /\ IsOk(fileResult)
    /\ Len(Val(fileResult).files) = 3
    /\ Val(fileResult).files[3].target = <<"data.fq">>

----
\* Properties of ToolVersion::new and DescriptorType::new (checked under SpecTool)

IsToolVersionCall == toolCall.fn = "ToolVersion::new"
LanguageTypeOfCall == Unwrap(toolCall.config).workflow.language.type
\* The owner makes a host name Url::parse accepts
OwnerIsHost == \A i \in DOMAIN toolCall.owner : toolCall.owner[i] # " "

\* C7 as stated: with a language type the result's descriptor_type is the one-element
\* list of the mapped DescriptorType; without one the call fails with
\* MissingLanguageType.
C7_Original ==
    IsToolVersionCall =>
        /\ (IsSome(LanguageTypeOfCall) /\ IsOk(toolResult)) =>
              Val(toolResult).descriptor_type =
                  Some(<< <<"DescriptorType", Unwrap(LanguageTypeOfCall)[2]>> >>)
        /\ ~IsSome(LanguageTypeOfCall) => toolResult = Err("MissingLanguageType")

\* C7 amended: when the version URL built from the owner parses, a language type gives
\* a ToolVersion whose descriptor_type is the one-element list of the mapped
\* DescriptorType and no language type gives MissingLanguageType; when the URL does not
\* parse the call fails with the URL error whatever the language type; without a
\* language type no ToolVersion is produced.
C7_DescriptorTypeOrError ==
    IsToolVersionCall =>
        /\ (OwnerIsHost /\ IsSome(LanguageTypeOfCall)) =>
              /\ IsOk(toolResult)
              /\ Val(toolResult).descriptor_type =
                    Some(<< <<"DescriptorType", Unwrap(LanguageTypeOfCall)[2]>> >>)
        /\ (OwnerIsHost /\ ~IsSome(LanguageTypeOfCall)) =>
              toolResult = Err("MissingLanguageType")
        /\ ~OwnerIsHost => toolResult = Err("UrlParse")
        /\ ~IsSome(LanguageTypeOfCall) => ~IsOk(toolResult)

\* C7 witness: a Config with language type Wdl gave descriptor_type [WDL]
C7_Witness ==
    /\ IsToolVersionCall
    /\ LanguageTypeOfCall = Some(<<"LanguageType", "Wdl">>)
    /\ IsOk(toolResult)
    /\ Val(toolResult).descriptor_type = Some(<< <<"DescriptorType", "Wdl">> >>)

AllLanguageTypesMapped == {p[1] : p \in mapped} = LanguageType

\* C8 as stated: DescriptorType::new maps each LanguageType to the DescriptorType of
\* the same name, distinct ones to distinct ones, and every DescriptorType is the image
\* of some LanguageType.
C8_Original ==
    /\ \A p \in mapped : p[2] = <<"DescriptorType", p[1][2]>>
    /\ \A p, q \in mapped : p[2] = q[2] => p[1] = q[1]
    /\ AllLanguageTypesMapped => {p[2] : p \in mapped} = DescriptorType

\* C8 amended: DescriptorType::new maps each LanguageType to the DescriptorType of the
\* same name, distinct ones to distinct ones; its image is Cwl, Wdl, Nfl, Smk, and the
\* DescriptorType Galaxy is the image of no LanguageType.
C8_InjectiveOntoFour ==
    /\ \A p \in mapped : p[1] \in LanguageType /\ p[2] = <<"DescriptorType", p[1][2]>>
    /\ \A p, q \in mapped : p[2] = q[2] => p[1] = q[1]
    /\ AllLanguageTypesMapped =>
          {p[2] : p \in mapped} = DescriptorType \ {<<"DescriptorType", "Galaxy">>}
    /\ Cardinality(DescriptorType) = Cardinality(LanguageType) + 1

\* C8 witness: DescriptorType::new has been applied to every LanguageType
C8_Witness ==
    /\ AllLanguageTypesMapped
    /\ toolCall.fn = "DescriptorType::new"
    /\ Cardinality(mapped) = 4

====
